---- MODULE Spec2Model ----
(***************************************************************************)
(* Elias gamma codec of gamma.py: gamma_encode_number, gamma_encode_list   *)
(* and gamma_decode, with the driver of gamma_test.py (encode, then decode *)
(* the result) and the converse composition (decode, then encode the       *)
(* result).  A Python str of '0'/'1' is a sequence of the one-character    *)
(* strings "0" and "1".                                                    *)
(***************************************************************************)
EXTENDS Integers, Sequences, FiniteSets, TLC

VARIABLES entry, pc, nums, k, parts, enc_ret, stream, i, zeros, decoded, dec_ret

vars == <<entry, pc, nums, k, parts, enc_ret, stream, i, zeros, decoded, dec_ret>>

(* ---------------------------- bounds ---------------------------------- *)

\* longest list handed to gamma_encode_list
MaxNums == 2
\* largest integer handed to the encoder
MaxInt == 16
\* the encoder is also handed the integers -NegRange .. 0
NegRange == 1
\* longest bit string handed directly to gamma_decode
MaxStream == 8

(* ---------------------------- values ---------------------------------- *)

Bit == {"0", "1"}

SeqsUpTo(S, n) == UNION {[1..m -> S] : m \in 0..n}

\* outcome of a call: nothing yet, a returned value, or a raised exception
None == [kind |-> "none"]

Return(v) == [kind |-> "return", value |-> v]

Raise(e) == [kind |-> "raise", exc |-> e]

InvalidInput ==
    [type |-> "ValueError",
     msg |-> "Gamma encoding is only defined for positive integers"]

PrefixCutoff ==
    [type |-> "ValueError", msg |-> "Malformed gamma stream (prefix cutoff)"]

\* the offset error raised with the message of the prefix error
OffsetCutoff_SameMsg ==
    [type |-> "ValueError", msg |-> "Malformed gamma stream (prefix cutoff)"]

OffsetCutoff ==
    [type |-> "ValueError", msg |-> "Malformed gamma stream (offset cutoff)"]

(* ------------------------- pure helpers ------------------------------- *)

\* "0" * n
RECURSIVE Repeat(_, _)
Repeat(c, n) == IF n <= 0 THEN <<>> ELSE <<c>> \o Repeat(c, n - 1)

\* bin(n)[2:] for n >= 1: the binary digits of n, most significant first
RECURSIVE bin(_)
bin(n) ==
    IF n < 2
        THEN <<IF n = 1 THEN "1" ELSE "0">>
        ELSE Append(bin(n \div 2), IF n % 2 = 1 THEN "1" ELSE "0")

\* int(s, 2) for a string s of binary digits
RECURSIVE int2(_)
int2(s) ==
    IF s = <<>>
        THEN 0
        ELSE 2 * int2(SubSeq(s, 1, Len(s) - 1))
             + (IF s[Len(s)] = "1" THEN 1 ELSE 0)

\* "".join(parts)
RECURSIVE join(_)
join(ps) == IF ps = <<>> THEN <<>> ELSE Head(ps) \o join(Tail(ps))

\* stream[a : b] for 0 <= a <= b: a Python slice stops at the end of the string
Slice(s, a, b) == SubSeq(s, a + 1, IF b < Len(s) THEN b ELSE Len(s))

\* the unary prefix written without its terminating one
gamma_encode_number_NoTerminator(n) ==
    IF n <= 0
        THEN Raise(InvalidInput)
        ELSE LET binary == bin(n)
                 offset == Tail(binary)
                 length == Len(binary) - 1
                 prefix == Repeat("0", length)
             IN  Return(prefix \o offset)

\* the leading one of the binary form kept in the offset
gamma_encode_number_KeepLeading(n) ==
    IF n <= 0
        THEN Raise(InvalidInput)
        ELSE LET binary == bin(n)
                 offset == binary
                 length == Len(binary) - 1
                 prefix == Append(Repeat("0", length), "1")
             IN  Return(prefix \o offset)

gamma_encode_number(n) ==
    IF n <= 0
        THEN Raise(InvalidInput)
        ELSE LET binary == bin(n)
                 offset == Tail(binary)
                 length == Len(binary) - 1
                 prefix == Append(Repeat("0", length), "1")
             IN  Return(prefix \o offset)

\* the test of line 108 with > for >=
PrefixCut_OffByOne(ii, s) == ii > Len(s)

\* if i >= len(stream)
PrefixCut(ii, s) == ii >= Len(s)

\* the test of line 114 with >= for >
OffsetCut_OffByOne(ii, z, s) == ii + z >= Len(s)

\* the test of line 114 left out
OffsetCut_Never(ii, z, s) == FALSE

\* if i + zeros > len(stream)
OffsetCut(ii, z, s) == ii + z > Len(s)

\* the offset converted without the leading one
Reconstruct_NoLeadingOne(offset) == int2(offset)

\* binary = "1" + offset; int(binary, 2)
Reconstruct(offset) ==
    LET binary == <<"1">> \o offset
    IN  int2(binary)

(* ----------------------------- Init ----------------------------------- *)

Init ==
    /\ entry \in {"encode", "decode"}
    /\ nums \in IF entry = "encode"
                   THEN SeqsUpTo((0 - NegRange)..MaxInt, MaxNums)
                   ELSE {<<>>}
    /\ stream \in IF entry = "decode" THEN SeqsUpTo(Bit, MaxStream) ELSE {<<>>}
    /\ pc = IF entry = "encode" THEN "enc_next" ELSE "dec_loop"
    /\ k = 0
    /\ parts = <<>>
    /\ enc_ret = None
    /\ i = 0
    /\ zeros = 0
    /\ decoded = <<>>
    /\ dec_ret = None

(* ------------------------ gamma_encode_list --------------------------- *)

\* an element the encoder rejects is skipped and the rest is encoded
EncodeNext_Skip ==
    /\ pc = "enc_next"
    /\ k < Len(nums)
    /\ LET r == gamma_encode_number(nums[k + 1])
       IN  /\ parts' = IF r.kind = "raise" THEN parts ELSE Append(parts, r.value)
           /\ k' = k + 1
           /\ UNCHANGED <<enc_ret, pc>>
    /\ UNCHANGED <<entry, nums, stream, i, zeros, decoded, dec_ret>>

\* the generator yields the code of the next element, or the exception of
\* gamma_encode_number propagates out of join and of gamma_encode_list
EncodeNext ==
    /\ pc = "enc_next"
    /\ k < Len(nums)
    /\ LET r == gamma_encode_number(nums[k + 1])
       IN  IF r.kind = "raise"
               THEN /\ enc_ret' = r
                    /\ pc' = "done"
                    /\ UNCHANGED <<k, parts>>
               ELSE /\ parts' = Append(parts, r.value)
                    /\ k' = k + 1
                    /\ UNCHANGED <<enc_ret, pc>>
    /\ UNCHANGED <<entry, nums, stream, i, zeros, decoded, dec_ret>>

\* the generator is exhausted: join returns the concatenation
EncodeJoin ==
    /\ pc = "enc_next"
    /\ k >= Len(nums)
    /\ enc_ret' = Return(join(parts))
    /\ pc' = IF entry = "encode" THEN "call_decode" ELSE "done"
    /\ UNCHANGED <<entry, nums, k, parts, stream, i, zeros, decoded, dec_ret>>

\* decoded = gamma_decode(encoded): lines 98-99 initialise the locals
CallDecode ==
    /\ pc = "call_decode"
    /\ stream' = enc_ret.value
    /\ i' = 0
    /\ decoded' = <<>>
    /\ pc' = "dec_loop"
    /\ UNCHANGED <<entry, nums, k, parts, enc_ret, zeros, dec_ret>>

(* --------------------------- gamma_decode ----------------------------- *)

\* while i < len(stream): ... zeros = 0;  else return decoded
DecLoop ==
    /\ pc = "dec_loop"
    /\ IF i < Len(stream)
           THEN /\ zeros' = 0
                /\ pc' = "dec_scan"
                /\ UNCHANGED dec_ret
           ELSE /\ dec_ret' = Return(decoded)
                /\ pc' = IF entry = "decode" THEN "call_encode" ELSE "done"
                /\ UNCHANGED zeros
    /\ UNCHANGED <<entry, nums, k, parts, enc_ret, stream, i, decoded>>

\* while i < len(stream) and stream[i] == "0": zeros += 1; i += 1
DecScan ==
    /\ pc = "dec_scan"
    /\ IF i < Len(stream) /\ stream[i + 1] = "0"
           THEN /\ zeros' = zeros + 1
                /\ i' = i + 1
                /\ UNCHANGED pc
           ELSE /\ pc' = "dec_prefix"
                /\ UNCHANGED <<zeros, i>>
    /\ UNCHANGED <<entry, nums, k, parts, enc_ret, stream, decoded, dec_ret>>

\* a prefix cut short ends the loop and the values decoded so far are returned
DecPrefix_Partial ==
    /\ pc = "dec_prefix"
    /\ IF PrefixCut(i, stream)
           THEN /\ dec_ret' = Return(decoded)
                /\ pc' = "done"
                /\ UNCHANGED i
           ELSE /\ i' = i + 1
                /\ pc' = "dec_offset"
                /\ UNCHANGED dec_ret
    /\ UNCHANGED <<entry, nums, k, parts, enc_ret, stream, zeros, decoded>>

\* the terminating one is not stepped over
DecPrefix_NoAdvance ==
    /\ pc = "dec_prefix"
    /\ IF PrefixCut(i, stream)
           THEN /\ dec_ret' = Raise(PrefixCutoff)
                /\ pc' = "done"
                /\ UNCHANGED i
           ELSE /\ pc' = "dec_offset"
                /\ UNCHANGED <<i, dec_ret>>
    /\ UNCHANGED <<entry, nums, k, parts, enc_ret, stream, zeros, decoded>>

\* if i >= len(stream): raise prefix cutoff;  i += 1
DecPrefix ==
    /\ pc = "dec_prefix"
    /\ IF PrefixCut(i, stream)
           THEN /\ dec_ret' = Raise(PrefixCutoff)
                /\ pc' = "done"
                /\ UNCHANGED i
           ELSE /\ i' = i + 1
                /\ pc' = "dec_offset"
                /\ UNCHANGED dec_ret
    /\ UNCHANGED <<entry, nums, k, parts, enc_ret, stream, zeros, decoded>>

\* if i + zeros > len(stream): raise offset cutoff
\* offset = stream[i : i + zeros]; i += zeros; decoded.append(int("1" + offset, 2))
DecOffset ==
    /\ pc = "dec_offset"
    /\ IF OffsetCut(i, zeros, stream)
           THEN /\ dec_ret' = Raise(OffsetCutoff)
                /\ pc' = "done"
                /\ UNCHANGED <<i, decoded>>
           ELSE LET offset == Slice(stream, i, i + zeros)
                IN  /\ i' = i + zeros
                    /\ decoded' = Append(decoded, Reconstruct(offset))
                    /\ pc' = "dec_loop"
                    /\ UNCHANGED dec_ret
    /\ UNCHANGED <<entry, nums, k, parts, enc_ret, stream, zeros>>

\* gamma_encode_list(decoded): the decoder's output handed to the encoder
CallEncode ==
    /\ pc = "call_encode"
    /\ nums' = dec_ret.value
    /\ k' = 0
    /\ parts' = <<>>
    /\ pc' = "enc_next"
    /\ UNCHANGED <<entry, enc_ret, stream, i, zeros, decoded, dec_ret>>

Next ==
    \/ EncodeNext
    \/ EncodeJoin
    \/ CallDecode
    \/ DecLoop
    \/ DecScan
    \/ DecPrefix
    \/ DecOffset
    \/ CallEncode

Spec == Init /\ [][Next]_vars

\* both functions are plain sequential code: a call that can take a step takes it
FairSpec == Init /\ [][Next]_vars /\ WF_vars(Next)

(* ---------------- definitions used to state the properties ------------ *)

RECURSIVE Pow2(_)
Pow2(n) == IF n <= 0 THEN 1 ELSE 2 * Pow2(n - 1)

\* N = floor(log2(x)) + 1 for x >= 1: the least N with x < 2^N
BitLen(x) == CHOOSE N \in 1..(x + 1) : Pow2(N - 1) <= x /\ x < Pow2(N)

IsPrefix(p, s) == Len(p) <= Len(s) /\ SubSeq(s, 1, Len(p)) = p

AllZeros(s) == \A m \in 1..Len(s) : s[m] = "0"

AllPositive(L) == \A m \in 1..Len(L) : L[m] >= 1

\* the gamma code of x >= 1 written from its definition: N-1 zeros, a one,
\* then bits N-2 .. 0 of x
GammaCode(x) ==
    LET N == BitLen(x)
    IN  [m \in 1..(2 * N - 1) |->
            IF m < N THEN "0"
            ELSE IF m = N THEN "1"
            ELSE IF (x \div Pow2(2 * N - 1 - m)) % 2 = 1 THEN "1" ELSE "0"]

\* s is a concatenation of zero or more complete codes, a complete code being
\* N-1 zeros, a one and N-1 further bits
RECURSIVE CodeConcat(_)
CodeConcat(s) ==
    \/ s = <<>>
    \/ \E N \in 1..((Len(s) + 1) \div 2) :
          /\ AllZeros(SubSeq(s, 1, N - 1))
          /\ s[N] = "1"
          /\ CodeConcat(SubSeq(s, 2 * N, Len(s)))

\* s splits into complete codes followed by a remainder satisfying Cut
CutAfterCodes(s, Cut(_)) ==
    \E j \in 0..Len(s) :
        /\ CodeConcat(SubSeq(s, 1, j))
        /\ Cut(SubSeq(s, j + 1, Len(s)))

\* s is a non-empty run of zeros: a code cut inside its length prefix
CutInPrefix(s) == s # <<>> /\ AllZeros(s)

\* s is L zeros, a one, and fewer than L further bits: a code cut inside its offset
CutInOffset(s) ==
    \E L \in 1..Len(s) :
        /\ L + 1 <= Len(s)
        /\ AllZeros(SubSeq(s, 1, L))
        /\ s[L + 1] = "1"
        /\ Len(s) - (L + 1) < L

\* gamma_encode_list has returned or raised
EncodeDone == enc_ret # None

\* gamma_decode has returned or raised
DecodeDone == dec_ret # None

(* ------------------------------ C1 ------------------------------------ *)

\* C1: round trip. Whenever gamma_encode_list returned for a list of positive
\* integers and gamma_decode then finished on that result, gamma_decode
\* returned exactly the list, same elements in the same order.
C1_RoundTrip ==
    (entry = "encode" /\ AllPositive(nums) /\ pc = "done")
        => /\ enc_ret.kind = "return"
           /\ stream = enc_ret.value
           /\ dec_ret = Return(nums)

C1_Witness ==
    /\ entry = "encode"
    /\ pc = "done"
    /\ Len(nums) = MaxNums
    /\ \E m \in 1..Len(nums) : nums[m] >= 5
    /\ \E m \in 1..Len(nums) : nums[m] = 1
    /\ dec_ret = Return(nums)

(* ------------------------------ C2 ------------------------------------ *)

\* C2: every code the encoder has produced for an element x >= 1 is N-1
\* zeros, a one, and the N-1 low-order bits of x most significant first,
\* where N = floor(log2(x)) + 1; its length is 2N - 1; the codes of 1, 5 and
\* 10 are "1", "00101" and "0001010".
C2_CodeShape ==
    \A m \in 1..Len(parts) :
        LET x == nums[m]
            c == parts[m]
            N == BitLen(x)
        IN  /\ x >= 1
            /\ Len(c) = 2 * N - 1
            /\ \A j \in 1..(N - 1) : c[j] = "0"
            /\ c[N] = "1"
            /\ \A j \in 1..(N - 1) :
                  c[N + j] = (IF (x \div Pow2(N - 1 - j)) % 2 = 1 THEN "1" ELSE "0")
            /\ c = GammaCode(x)
            /\ x = 1 => c = <<"1">>
            /\ x = 5 => c = <<"0", "0", "1", "0", "1">>
            /\ x = 10 => c = <<"0", "0", "0", "1", "0", "1", "0">>

C2_Witness ==
    /\ Len(parts) = 2
    /\ nums = <<5, 10>>
    /\ Len(parts[1]) = 5
    /\ Len(parts[2]) = 7

(* ------------------------------ C3 ------------------------------------ *)

\* C3: prefix-freeness. Of the codes the encoder has produced for two
\* different integers, neither is a prefix of the other.
C3_PrefixFree ==
    \A a, b \in 1..Len(parts) :
        nums[a] # nums[b] => ~IsPrefix(parts[a], parts[b])

C3_Witness ==
    /\ Len(parts) >= 2
    /\ nums[1] = 2
    /\ nums[2] = 10
    /\ Len(parts[1]) < Len(parts[2])

(* ------------------------------ C4 ------------------------------------ *)

\* C4: gamma_encode_number raises InvalidInput for every x <= 0, and
\* gamma_encode_list is all-or-nothing: it raises InvalidInput if and only
\* if some element is <= 0, the outcome then carries no bit sequence and
\* nothing is handed on to the decoder; otherwise it returns the
\* concatenation of the codes of all elements, none skipped.
C4_AllOrNothing ==
    /\ \A m \in 1..Len(nums) :
          nums[m] <= 0 => gamma_encode_number(nums[m]) = Raise(InvalidInput)
    /\ EncodeDone =>
          IF \E m \in 1..Len(nums) : nums[m] <= 0
              THEN /\ enc_ret = Raise(InvalidInput)
                   /\ pc = "done"
                   /\ dec_ret = None
                   /\ stream = <<>>
              ELSE /\ enc_ret.kind = "return"
                   /\ Len(parts) = Len(nums)
                   /\ enc_ret.value = join([m \in 1..Len(nums) |-> GammaCode(nums[m])])

\* the element before the rejected one was already encoded when the call failed
C4_Witness ==
    /\ EncodeDone
    /\ Len(nums) = 2
    /\ nums[1] >= 1
    /\ nums[2] <= 0
    /\ Len(parts) = 1
    /\ enc_ret = Raise(InvalidInput)

\* the rejected element comes first and a valid one follows it
C4_WitnessAfter ==
    /\ EncodeDone
    /\ Len(nums) = 2
    /\ nums[1] <= 0
    /\ nums[2] >= 1
    /\ enc_ret = Raise(InvalidInput)

(* ------------------------------ C5 ------------------------------------ *)

\* C5: gamma_decode raises 'prefix cutoff' exactly when the stream is zero
\* or more complete codes followed by a non-empty remainder of zeros only;
\* "000" is such a stream.
C5_PrefixCutoff ==
    DecodeDone =>
        /\ dec_ret = Raise(PrefixCutoff) <=> CutAfterCodes(stream, CutInPrefix)
        /\ stream = <<"0", "0", "0">> => dec_ret = Raise(PrefixCutoff)

C5_Witness ==
    /\ DecodeDone
    /\ dec_ret = Raise(PrefixCutoff)
    /\ Len(decoded) >= 1
    /\ zeros >= 2

(* ------------------------------ C6 ------------------------------------ *)

\* a single complete code: L zeros, a one and exactly L further bits
OneCode(s) ==
    \E L \in 0..Len(s) :
        /\ Len(s) = 2 * L + 1
        /\ AllZeros(SubSeq(s, 1, L))
        /\ s[L + 1] = "1"

\* C6: gamma_decode raises 'offset cutoff' exactly when the stream is zero or
\* more complete codes followed by L zeros, a one and fewer than L further
\* bits ("0010" and "101" are such streams); when exactly L bits follow the
\* one the call does not fail, and a code with L = 0 never fails this way.
C6_OffsetCutoff ==
    DecodeDone =>
        /\ dec_ret = Raise(OffsetCutoff) <=> CutAfterCodes(stream, CutInOffset)
        /\ stream = <<"0", "0", "1", "0">> => dec_ret = Raise(OffsetCutoff)
        /\ stream = <<"1", "0", "1">> => dec_ret = Raise(OffsetCutoff)
        /\ CutAfterCodes(stream, OneCode) => dec_ret.kind = "return"
        /\ dec_ret = Raise(OffsetCutoff) => zeros >= 1

C6_Witness ==
    /\ DecodeDone
    /\ dec_ret = Raise(OffsetCutoff)
    /\ Len(decoded) >= 1
    /\ zeros >= 2
    /\ Len(stream) - i = zeros - 1

\* a stream whose last code has exactly its L >= 1 offset bits is accepted
C6_WitnessExact ==
    /\ DecodeDone
    /\ dec_ret.kind = "return"
    /\ zeros >= 2
    /\ entry = "decode"

(* ------------------------------ C7 ------------------------------------ *)

\* C7: gamma_decode returns only with the read pointer exactly at the end of
\* the stream, and exactly for the streams that are concatenations of
\* complete codes; the value returned is the whole list decoded. A stream of
\* one or more complete codes followed by a truncated code raises a
\* MalformedStream error, and the outcome carries none of the values decoded
\* before it. The empty stream returns the empty list.
C7_WholeInput ==
    DecodeDone =>
        /\ dec_ret.kind = "return" <=> CodeConcat(stream)
        /\ dec_ret.kind = "return" =>
              /\ i = Len(stream)
              /\ dec_ret = Return(decoded)
        /\ (\/ CutAfterCodes(stream, CutInPrefix)
            \/ CutAfterCodes(stream, CutInOffset)) =>
              dec_ret \in {Raise(PrefixCutoff), Raise(OffsetCutoff)}
        /\ stream = <<>> => dec_ret = Return(<<>>)

C7_Witness ==
    /\ DecodeDone
    /\ dec_ret.kind = "raise"
    /\ Len(decoded) >= 2
    /\ i < Len(stream) \/ zeros > 0

C7_WitnessEmpty ==
    /\ entry = "decode"
    /\ stream = <<>>
    /\ dec_ret = Return(<<>>)

(* ------------------------------ C8 ------------------------------------ *)

\* C8: the three failure paths raise three pairwise distinct exceptions, the
\* exception raised identifies the path that failed (a non-positive element;
\* the stream ending on a zero of a length prefix; the stream ending after a
\* terminating one), and every failure is a raise, never a returned value.
C8_DistinctErrors ==
    /\ InvalidInput # PrefixCutoff
    /\ InvalidInput # OffsetCutoff
    /\ PrefixCutoff # OffsetCutoff
    /\ (EncodeDone /\ ~AllPositive(nums)) =>
          /\ enc_ret.kind = "raise"
          /\ enc_ret.exc = InvalidInput
          /\ enc_ret.exc \notin {PrefixCutoff, OffsetCutoff}
    /\ (DecodeDone /\ ~CodeConcat(stream)) =>
          /\ dec_ret.kind = "raise"
          /\ i >= 1
          /\ stream[i] = "0" =>
                dec_ret.exc = PrefixCutoff /\ dec_ret.exc \notin {InvalidInput, OffsetCutoff}
          /\ stream[i] = "1" =>
                dec_ret.exc = OffsetCutoff /\ dec_ret.exc \notin {InvalidInput, PrefixCutoff}
    /\ (EncodeDone /\ enc_ret.kind = "raise") => ~AllPositive(nums)
    /\ (DecodeDone /\ dec_ret.kind = "raise") => ~CodeConcat(stream)

C8_Witness ==
    /\ DecodeDone
    /\ dec_ret = Raise(OffsetCutoff)
    /\ stream[i] = "1"
    /\ Len(stream) >= 4

(* ------------------------------ C9 ------------------------------------ *)

DecRunning == pc \in {"dec_loop", "dec_scan", "dec_prefix", "dec_offset"}

\* the read pointer stays within the stream, and every value emitted has
\* consumed at least one bit
C9_PointerBounds ==
    /\ i \in 0..Len(stream)
    /\ Len(decoded) <= i
    /\ Len(decoded) <= Len(stream)
    /\ DecodeDone =>
          dec_ret \in {Return(decoded), Raise(PrefixCutoff), Raise(OffsetCutoff)}

\* the read pointer never decreases, the terminator advances it by exactly
\* one, and a value is emitted only by a pass that advanced it
C9_PointerStep ==
    /\ i' >= i
    /\ (pc = "dec_prefix" /\ pc' = "dec_offset") => i' = i + 1
    /\ decoded' # decoded =>
          /\ Len(decoded') = Len(decoded) + 1
          /\ i' = i + zeros
          /\ i' <= Len(stream)
          /\ i' > Len(decoded)

\* C9: gamma_decode terminates on every finite bit string, returning or
\* raising one of the two MalformedStream errors; the read pointer starts at
\* 0, never decreases, advances by at least one on every pass that emits a
\* value and never exceeds len(stream), so at most len(stream) values are
\* emitted.
C9_Terminates ==
    /\ []C9_PointerBounds
    /\ [][C9_PointerStep]_vars
    /\ (DecRunning ~> DecodeDone)

C9_Witness ==
    /\ DecodeDone
    /\ entry = "decode"
    /\ Len(stream) = MaxStream
    /\ Len(decoded) >= 2
    /\ i = Len(stream)

(* ------------------------------ C10 ----------------------------------- *)

\* C10: whenever gamma_decode returns, every value it returns is >= 1 and
\* the stream is the concatenation of the gamma codes of the values in
\* order; gamma_encode_list applied to the returned list returns the stream.
C10_Inverse ==
    /\ (DecodeDone /\ dec_ret.kind = "return") =>
          /\ AllPositive(dec_ret.value)
          /\ stream = join([m \in 1..Len(dec_ret.value) |-> GammaCode(dec_ret.value[m])])
    /\ (entry = "decode" /\ EncodeDone) =>
          /\ nums = dec_ret.value
          /\ enc_ret = Return(stream)

C10_Witness ==
    /\ entry = "decode"
    /\ EncodeDone
    /\ Len(nums) >= 2
    /\ \E m \in 1..Len(nums) : nums[m] >= 4
    /\ enc_ret = Return(stream)

====
